---- MODULE Spec2Model ----
(***************************************************************************)
(* r.import.worker: one worker process running main() of                   *)
(* src/r.import.worker.py.  The worker copies the caller's session file to *)
(* a private one, switches to a fresh mapset, optionally carries the       *)
(* caller's region over, runs r.import in a retry loop that classifies the *)
(* tool's combined output, checks that the output artifact exists and      *)
(* restores the session pointer.                                           *)
(*                                                                         *)
(* A text is modelled as the set of message fragments it contains, so the  *)
(* substring test `m in resp_text` is membership and concatenation is      *)
(* union; the blank text "" is the empty set.                              *)
(***************************************************************************)
EXTENDS Integers, Sequences, FiniteSets, TLC

VARIABLES
    pc,          \* position of the worker in main()
    options,     \* the parsed options (grass.parser)
    flags,       \* the parsed flags (grass.parser)
    pid,         \* os.getpid()
    environ,     \* os.environ["GISRC"]
    fs,          \* session-state files: path -> mapset recorded in it, or NoFile
    mapsets,     \* mapset directories that exist under GISDBASE/LOCATION
    found,       \* elements named options["output"] in the new mapset
    gisrc,       \* local gisrc
    newgisrc,    \* local newgisrc
    reg,         \* local reg
    region,      \* the g.region call made, if any: its mapset and keyword arguments
    kwargsstr,   \* local kwargsstr
    flagstr,     \* local flagstr
    cmdline,     \* command line handed to grass.Popen
    tries,       \* local tries
    next_try,    \* local next_try
    noOverlap,   \* local noOverlap
    resp_text,   \* local resp_text
    branch,      \* branch of the if/elif chain taken by the last attempt
    invocations, \* number of grass.Popen calls made
    sleeps,      \* number of sleep() calls made
    slept,       \* total time slept
    warnings,    \* number of grass.warning calls made
    lastWarning, \* kind of the last grass.warning call
    fatalMsg,    \* message of the grass.fatal call made, if any
    allGzip,     \* every attempt so far gave only the compression token
    prevGzip,    \* every attempt before the last gave only the compression token
    writers,     \* session-state file -> the workers that created, wrote or deleted it
    pc2,         \* position of a second worker of the same parent session
    pid2,        \* os.getpid() of the second worker
    environ2,    \* os.environ["GISRC"] of the second worker
    gisrc2,      \* local gisrc of the second worker
    newgisrc2    \* local newgisrc of the second worker

vars == <<pc, options, flags, pid, environ, fs, mapsets, found, gisrc, newgisrc,
          reg, region, kwargsstr, flagstr, cmdline, tries, next_try, noOverlap,
          resp_text, branch, invocations, sleeps, slept, warnings, lastWarning,
          fatalMsg, allGzip, prevGzip, writers, pc2, pid2, environ2, gisrc2,
          newgisrc2>>

setupVars == <<environ, fs, mapsets, gisrc, newgisrc, reg, region>>
cmdVars == <<kwargsstr, flagstr, cmdline>>
sibVars == <<pc2, pid2, environ2, gisrc2, newgisrc2>>
loopVars == <<tries, next_try, noOverlap, resp_text, branch, invocations,
              sleeps, slept, warnings, lastWarning, allGzip, prevGzip>>

----------------------------------------------------------------------------
(* Program constants *)

\* max_tries one higher
max_tries_Eleven == 10 + 1

max_tries == 10

SleepSeconds == 10

(* Message fragments the classification looks for *)
Ladder == "0..3..6..9..12..15..18..21..24..27..30..33..36..39..42..45..48..51..54..57..60..63..66..69..72..75..78..81..84..87..90..93..96..99..100"
NoOverlapMsg == "Input raster does not overlap current computational region"
EmptyMsg(output) == "The reprojected raster <" \o output \o "> is empty"
GzipToken == "cpl_vsil_gzip.cpp"
Http503 == "503"
OtherText == "other text"

(* The session the worker is started in *)
ParentGisrc == "/tmp/grass/gisrc"
CallerMapset == "PERMANENT"
NoFile == "<no file>"
Unset == "<unset>"
NoReg == [unset |-> TRUE]

OutputName == "out"
NewMapsetName == "job1"

Pids == {4711}
SiblingPids == {4712, 4713}
NoPid == 0
SiblingMapsetName == "job2"

\* PrivatePath without the process identifier
PrivatePath_NoPid(g, p) == g \o "_" \o "job"

PrivatePath(g, p) == g \o "_" \o ToString(p)
Paths == {ParentGisrc} \cup {PrivatePath(ParentGisrc, p) : p \in Pids \cup SiblingPids}

Workers == {"worker", "sibling"}

CallerRegion == [projection |-> 1, zone |-> 32, n |-> 40, s |-> 20, w |-> 10, e |-> 30,
                 nsres |-> 2, ewres |-> 2, rows |-> 10, cols |-> 10, cells |-> 100]

(* The region a mapset created by g.mapset -c starts with *)
DefaultRegion == [projection |-> 1, zone |-> 32, n |-> 100, s |-> 0, w |-> 0, e |-> 100,
                  nsres |-> 1, ewres |-> 1, rows |-> 100, cols |-> 100, cells |-> 10000]

\* the active region of a mapset before this worker sets one
RegionOf(m) == IF m = CallerMapset THEN CallerRegion ELSE DefaultRegion

\* grass.region(): the region of the mapset the session file names
GrassRegion(f, rc) == RegionOf(f[rc])

Fragments == {Ladder, NoOverlapMsg, EmptyMsg(OutputName), GzipToken, Http503, OtherText}
Texts == SUBSET Fragments

(* A byte stream of the subprocess: valid UTF-8 carrying a text, or not.    *)
(* Messages, warnings and progress arrive on stderr, other output on       *)
(* stdout; the combined text ranges over every subset of Fragments.        *)
Undecodable == [valid |-> FALSE, text |-> {}]
Valid(t) == [valid |-> TRUE, text |-> t]
StdoutStreams == {Valid(t) : t \in SUBSET {OtherText}} \cup {Undecodable}
StderrStreams == {Valid(t) : t \in SUBSET (Fragments \ {OtherText})} \cup {Undecodable}

(* What an r.import run leaves in the new mapset under the output name *)
Artifacts == {{}, {"raster"}, {"group"}}

AllFlags == <<"e", "n", "l", "o">>
FlagChoices == {[e |-> FALSE, n |-> FALSE, l |-> FALSE, o |-> FALSE],
                [e |-> FALSE, n |-> TRUE, l |-> FALSE, o |-> TRUE]}

OptionKeys == <<"newmapset", "input", "output", "extent", "title">>
OptionChoices == {[newmapset |-> NewMapsetName, input |-> "in.tif", output |-> OutputName,
                   extent |-> x, title |-> ""] : x \in {"input", "region"}}

----------------------------------------------------------------------------
Init ==
    /\ pc = "rmdir"
    /\ options \in OptionChoices
    /\ flags \in FlagChoices
    /\ pid \in Pids
    /\ environ = ParentGisrc
    /\ \E stale \in {NoFile, NewMapsetName} :
          fs = [p \in Paths |-> IF p = ParentGisrc THEN CallerMapset
                                ELSE IF p = PrivatePath(ParentGisrc, pid) THEN stale
                                ELSE NoFile]
    /\ \E old \in SUBSET {NewMapsetName} : mapsets = {CallerMapset} \cup old
    /\ found \in Artifacts
    /\ (NewMapsetName \notin mapsets => found = {})
    /\ gisrc = Unset
    /\ newgisrc = Unset
    /\ reg = NoReg
    /\ region = NoReg
    /\ kwargsstr = Unset
    /\ flagstr = Unset
    /\ cmdline = Unset
    /\ tries = 0
    /\ next_try = TRUE
    /\ noOverlap = FALSE
    /\ resp_text = {}
    /\ branch = "none"
    /\ invocations = 0
    /\ sleeps = 0
    /\ slept = 0
    /\ warnings = 0
    /\ lastWarning = "none"
    /\ fatalMsg = Unset
    /\ allGzip = TRUE
    /\ prevGzip = TRUE
    /\ writers = [p \in Paths |-> {}]
    /\ pc2 = "idle"
    /\ pid2 = NoPid
    /\ environ2 = ParentGisrc
    /\ gisrc2 = Unset
    /\ newgisrc2 = Unset

----------------------------------------------------------------------------
(* Workspace setup *)

RemoveFile(f, p) == [f EXCEPT ![p] = NoFile]

CopyFile(f, src, dst) == [f EXCEPT ![dst] = f[src]]

\* g.mapset records the mapset in the session file GISRC points to
WriteMapset(f, rc, m) == [f EXCEPT ![rc] = m]

Wrote(wr, p, w) == [wr EXCEPT ![p] = @ \cup {w}]

Del(r, k) == [x \in (DOMAIN r) \ {k} |-> r[x]]

\* RemoveMapsetDir leaving an existing directory in place
RemoveMapsetDir_Skip ==
    /\ pc = "rmdir"
    /\ pc' = "gisrc"
    /\ UNCHANGED <<mapsets, found, writers, sibVars>>
    /\ UNCHANGED <<options, flags, pid, environ, fs, gisrc, newgisrc, reg, region,
                   cmdVars, loopVars, fatalMsg>>

\* grass.utils.try_rmdir(os.path.join(gisdbase, location, new_mapset))
RemoveMapsetDir ==
    /\ pc = "rmdir"
    /\ mapsets' = mapsets \ {options.newmapset}
    /\ found' = {}
    /\ pc' = "gisrc"
    /\ UNCHANGED <<writers, sibVars>>
    /\ UNCHANGED <<options, flags, pid, environ, fs, gisrc, newgisrc, reg, region,
                   cmdVars, loopVars, fatalMsg>>

\* create a private GISRC file for each job: try_remove, copyfile
CreatePrivateGisrc ==
    /\ pc = "gisrc"
    /\ gisrc' = environ
    /\ newgisrc' = PrivatePath(environ, pid)
    /\ fs' = CopyFile(RemoveFile(fs, newgisrc'), gisrc', newgisrc')
    /\ writers' = Wrote(writers, newgisrc', "worker")
    /\ pc' = "redirect"
    /\ UNCHANGED sibVars
    /\ UNCHANGED <<options, flags, pid, environ, mapsets, found, reg, region,
                   cmdVars, loopVars, fatalMsg>>

\* RedirectGisrc leaving GISRC as it is
RedirectGisrc_Skip ==
    /\ pc = "redirect"
    /\ pc' = "saveregion"
    /\ UNCHANGED <<environ, writers, sibVars>>
    /\ UNCHANGED <<options, flags, pid, fs, mapsets, found, gisrc, newgisrc, reg, region,
                   cmdVars, loopVars, fatalMsg>>

\* os.environ["GISRC"] = newgisrc
RedirectGisrc ==
    /\ pc = "redirect"
    /\ environ' = newgisrc
    /\ pc' = "saveregion"
    /\ UNCHANGED <<writers, sibVars>>
    /\ UNCHANGED <<options, flags, pid, fs, mapsets, found, gisrc, newgisrc, reg, region,
                   cmdVars, loopVars, fatalMsg>>

\* save region if extent=region
SaveRegion ==
    /\ pc = "saveregion"
    /\ reg' = IF options.extent = "region" THEN GrassRegion(fs, environ) ELSE reg
    /\ pc' = "mapset"
    /\ UNCHANGED <<writers, sibVars>>
    /\ UNCHANGED <<options, flags, pid, environ, fs, mapsets, found, gisrc, newgisrc,
                   region, cmdVars, loopVars, fatalMsg>>

\* grass.run_command("g.mapset", flags="c", mapset=new_mapset)
ChangeMapset ==
    /\ pc = "mapset"
    /\ mapsets' = mapsets \cup {options.newmapset}
    /\ fs' = WriteMapset(fs, environ, options.newmapset)
    /\ writers' = Wrote(writers, environ, "worker")
    /\ pc' = "setregion"
    /\ UNCHANGED sibVars
    /\ UNCHANGED <<options, flags, pid, environ, found, gisrc, newgisrc, reg, region,
                   cmdVars, loopVars, fatalMsg>>

\* StripRegion without the last del
StripRegion_FourKeys(r) == Del(Del(Del(Del(r, "cells"), "rows"), "cols"), "zone")

StripRegion(r) == Del(Del(Del(Del(Del(r, "cells"), "rows"), "cols"), "zone"), "projection")

\* set region
SetRegion ==
    /\ pc = "setregion"
    /\ reg' = IF options.extent = "region" THEN StripRegion(reg) ELSE reg
    /\ region' = IF options.extent = "region"
                 THEN [mapset |-> fs[environ], kwargs |-> reg']
                 ELSE region
    /\ pc' = "build"
    /\ UNCHANGED <<writers, sibVars>>
    /\ UNCHANGED <<options, flags, pid, environ, fs, mapsets, found, gisrc, newgisrc,
                   cmdVars, loopVars, fatalMsg>>

----------------------------------------------------------------------------
(* Command line *)

RECURSIVE KwargsStr(_, _)
KwargsStr(keys, opts) ==
    IF keys = <<>> THEN ""
    ELSE LET opt == Head(keys)
             val == opts[opt]
         IN  (IF opt # "newmapset" /\ val # ""
              THEN " " \o opt \o "='" \o val \o "'"
              ELSE "") \o KwargsStr(Tail(keys), opts)

RECURSIVE FlagStr(_, _)
FlagStr(keys, fl) ==
    IF keys = <<>> THEN ""
    ELSE (IF fl[Head(keys)] THEN Head(keys) ELSE "") \o FlagStr(Tail(keys), fl)

Command(kw, fstr) == "r.import --q " \o kw

BuildCommand ==
    /\ pc = "build"
    /\ kwargsstr' = KwargsStr(OptionKeys, options)
    /\ flagstr' = FlagStr(AllFlags, flags)
    /\ pc' = "loop"
    /\ UNCHANGED <<writers, sibVars>>
    /\ UNCHANGED <<options, flags, pid, found, setupVars, cmdline, loopVars, fatalMsg>>

----------------------------------------------------------------------------
(* Import with retry *)

\* for resp_line in resp: resp_text += resp_line.decode("utf-8")
Decode(out, err) == out.text \cup err.text

\* Branch with the no-overlap test ahead of the success test
Branch_OverlapFirst(text, t) ==
    IF NoOverlapMsg \in text THEN "nooverlap"
    ELSE IF Ladder \in text THEN "success"
    ELSE IF EmptyMsg(options.output) \in text THEN "empty"
    ELSE IF GzipToken \in text /\ t < max_tries THEN "gzip"
    ELSE IF Http503 \in text THEN "503"
    ELSE IF text # {} THEN "nonblank"
    ELSE "blank"

\* Branch with the "503" test ahead of the compression-token test
Branch_503First(text, t) ==
    IF Ladder \in text THEN "success"
    ELSE IF NoOverlapMsg \in text THEN "nooverlap"
    ELSE IF EmptyMsg(options.output) \in text THEN "empty"
    ELSE IF Http503 \in text THEN "503"
    ELSE IF GzipToken \in text /\ t < max_tries THEN "gzip"
    ELSE IF text # {} THEN "nonblank"
    ELSE "blank"

\* Branch with the compression-token test missing its budget condition
Branch_GzipUnbounded(text, t) ==
    IF Ladder \in text THEN "success"
    ELSE IF NoOverlapMsg \in text THEN "nooverlap"
    ELSE IF EmptyMsg(options.output) \in text THEN "empty"
    ELSE IF GzipToken \in text THEN "gzip"
    ELSE IF Http503 \in text THEN "503"
    ELSE IF text # {} THEN "nonblank"
    ELSE "blank"

\* the if/elif chain on resp_text
Branch(text, t) ==
    IF Ladder \in text THEN "success"
    ELSE IF NoOverlapMsg \in text THEN "nooverlap"
    ELSE IF EmptyMsg(options.output) \in text THEN "empty"
    ELSE IF GzipToken \in text /\ t < max_tries THEN "gzip"
    ELSE IF Http503 \in text THEN "503"
    ELSE IF text # {} THEN "nonblank"
    ELSE "blank"

\* NextTry with the generic branch retrying whatever the budget
NextTry_NoBudget(b, t) ==
    CASE b = "success" -> FALSE
      [] b = "nooverlap" -> FALSE
      [] b = "empty" -> FALSE
      [] b = "gzip" -> TRUE
      [] b = "503" -> t < max_tries
      [] b = "nonblank" -> TRUE
      [] b = "blank" -> FALSE

\* next_try as each branch leaves it
NextTry(b, t) ==
    CASE b = "success" -> FALSE
      [] b = "nooverlap" -> FALSE
      [] b = "empty" -> FALSE
      [] b = "gzip" -> TRUE
      [] b = "503" -> t < max_tries
      [] b = "nonblank" -> t < max_tries
      [] b = "blank" -> FALSE

\* Sleeps with the compression-token branch retrying at once
Sleeps_NoGzipSleep(b, t) ==
    CASE b = "503" -> t < max_tries
      [] b = "nonblank" -> t < max_tries
      [] OTHER -> FALSE

\* Sleeps with the "503" branch retrying at once
Sleeps_No503Sleep(b, t) ==
    CASE b = "gzip" -> TRUE
      [] b = "nonblank" -> t < max_tries
      [] OTHER -> FALSE

\* whether the branch calls sleep(10)
Sleeps(b, t) ==
    CASE b = "gzip" -> TRUE
      [] b = "503" -> t < max_tries
      [] b = "nonblank" -> t < max_tries
      [] OTHER -> FALSE

\* Warning with the compression-token branch retrying silently
Warning_SilentGzip(b) ==
    CASE b = "nooverlap" -> "no overlap"
      [] b = "empty" -> "only no-data"
      [] b = "503" -> "response"
      [] b = "nonblank" -> "response"
      [] OTHER -> "none"

\* the grass.warning call of the branch, "none" if it makes none
Warning(b) ==
    CASE b = "nooverlap" -> "no overlap"
      [] b = "empty" -> "only no-data"
      [] b = "gzip" -> "retrying"
      [] b = "503" -> "response"
      [] b = "nonblank" -> "response"
      [] OTHER -> "none"

\* NoOverlapAfter with the flag never set
NoOverlapAfter_Forgotten(b, old) == old

\* NoOverlapAfter with the empty-result branch setting the flag too
NoOverlapAfter_AlsoEmpty(b, old) == IF b \in {"nooverlap", "empty"} THEN TRUE ELSE old

\* noOverlap as each branch leaves it
NoOverlapAfter(b, old) == IF b = "nooverlap" THEN TRUE ELSE old

GzipOnly(text) ==
    /\ GzipToken \in text
    /\ Ladder \notin text
    /\ NoOverlapMsg \notin text
    /\ EmptyMsg(options.output) \notin text

\* one iteration of `while next_try`, both streams decodable
Attempt(out, err, art) ==
    /\ pc = "loop"
    /\ next_try
    /\ out.valid /\ err.valid
    /\ tries' = tries + 1
    /\ cmdline' = Command(kwargsstr, flagstr)
    /\ invocations' = invocations + 1
    /\ found' = art
    /\ resp_text' = Decode(out, err)
    /\ branch' = Branch(resp_text', tries')
    /\ next_try' = NextTry(branch', tries')
    /\ noOverlap' = NoOverlapAfter(branch', noOverlap)
    /\ sleeps' = IF Sleeps(branch', tries') THEN sleeps + 1 ELSE sleeps
    /\ slept' = IF Sleeps(branch', tries') THEN slept + SleepSeconds ELSE slept
    /\ warnings' = IF Warning(branch') # "none" THEN warnings + 1 ELSE warnings
    /\ lastWarning' = IF Warning(branch') # "none" THEN Warning(branch') ELSE lastWarning
    /\ prevGzip' = allGzip
    /\ allGzip' = (allGzip /\ GzipOnly(resp_text'))
    /\ pc' = IF next_try' THEN "loop" ELSE "verify"
    /\ UNCHANGED <<writers, sibVars>>
    /\ UNCHANGED <<options, flags, pid, setupVars, kwargsstr, flagstr, fatalMsg>>

\* one iteration in which a stream is not valid UTF-8: decode raises
AttemptDecodeError(out, err, art) ==
    /\ pc = "loop"
    /\ next_try
    /\ ~(out.valid /\ err.valid)
    /\ tries' = tries + 1
    /\ cmdline' = Command(kwargsstr, flagstr)
    /\ invocations' = invocations + 1
    /\ found' = art
    /\ resp_text' = IF out.valid THEN out.text ELSE {}
    /\ branch' = "none"
    /\ prevGzip' = allGzip
    /\ allGzip' = FALSE
    /\ pc' = "crash"
    /\ UNCHANGED <<writers, sibVars>>
    /\ UNCHANGED <<options, flags, pid, setupVars, kwargsstr, flagstr, fatalMsg,
                   next_try, noOverlap, sleeps, slept, warnings, lastWarning>>

----------------------------------------------------------------------------
(* Verification and cleanup *)

\* ArtifactCheckFails without the lookup as a group
ArtifactCheckFails_RasterOnly(fnd, noov) ==
    /\ "raster" \notin fnd
    /\ noov # TRUE

\* the condition of the final if: no raster, no group, noOverlap is not True
ArtifactCheckFails(fnd, noov) ==
    /\ "raster" \notin fnd
    /\ "group" \notin fnd
    /\ noov # TRUE

FatalMessage(output) == "ERROR " \o output

Verify ==
    /\ pc = "verify"
    /\ IF ArtifactCheckFails(found, noOverlap)
       THEN /\ fatalMsg' = FatalMessage(options.output)
            /\ pc' = "fatal"
       ELSE /\ fatalMsg' = fatalMsg
            /\ pc' = "cleanup"
    /\ UNCHANGED <<options, flags, pid, found, setupVars, cmdVars, loopVars>>
    /\ UNCHANGED <<writers, sibVars>>

\* grass.utils.try_remove(newgisrc)
RemovePrivateGisrc ==
    /\ pc = "cleanup"
    /\ fs' = RemoveFile(fs, newgisrc)
    /\ writers' = Wrote(writers, newgisrc, "worker")
    /\ pc' = "restore"
    /\ UNCHANGED sibVars
    /\ UNCHANGED <<options, flags, pid, environ, found, mapsets, gisrc, newgisrc, reg,
                   region, cmdVars, loopVars, fatalMsg>>

\* os.environ["GISRC"] = gisrc; return 0
RestoreGisrc ==
    /\ pc = "restore"
    /\ environ' = gisrc
    /\ pc' = "exit0"
    /\ UNCHANGED <<writers, sibVars>>
    /\ UNCHANGED <<options, flags, pid, fs, found, mapsets, gisrc, newgisrc, reg,
                   region, cmdVars, loopVars, fatalMsg>>

----------------------------------------------------------------------------
Next ==
    \/ RemoveMapsetDir
    \/ CreatePrivateGisrc
    \/ RedirectGisrc
    \/ SaveRegion
    \/ ChangeMapset
    \/ SetRegion
    \/ BuildCommand
    \/ \E out \in StdoutStreams, err \in StderrStreams, art \in Artifacts :
          Attempt(out, err, art)
    \/ \E out \in StdoutStreams, err \in StderrStreams, art \in Artifacts :
          AttemptDecodeError(out, err, art)
    \/ Verify
    \/ RemovePrivateGisrc
    \/ RestoreGisrc

Spec == Init /\ [][Next]_vars

----------------------------------------------------------------------------
(* A second worker of the same parent session, spawned by the dispatcher   *)
(* with another process identifier and another mapset name.  It runs the   *)
(* same main(); its steps that touch no session-state file (region,        *)
(* command line, r.import attempts, artifact check) are one step.          *)

mainVars == <<pc, options, flags, pid, environ, found, gisrc, newgisrc, reg, region,
              cmdVars, loopVars, fatalMsg>>

SibStart(p) ==
    /\ pc2 = "idle"
    /\ p # pid
    /\ pid2' = p
    /\ pc2' = "rmdir"
    /\ UNCHANGED <<mainVars, fs, mapsets, writers, environ2, gisrc2, newgisrc2>>

SibRemoveMapsetDir ==
    /\ pc2 = "rmdir"
    /\ mapsets' = mapsets \ {SiblingMapsetName}
    /\ pc2' = "gisrc"
    /\ UNCHANGED <<mainVars, fs, writers, pid2, environ2, gisrc2, newgisrc2>>

SibCreatePrivateGisrc ==
    /\ pc2 = "gisrc"
    /\ gisrc2' = environ2
    /\ newgisrc2' = PrivatePath(environ2, pid2)
    /\ fs' = CopyFile(RemoveFile(fs, newgisrc2'), gisrc2', newgisrc2')
    /\ writers' = Wrote(writers, newgisrc2', "sibling")
    /\ pc2' = "redirect"
    /\ UNCHANGED <<mainVars, mapsets, pid2, environ2>>

SibRedirectGisrc ==
    /\ pc2 = "redirect"
    /\ environ2' = newgisrc2
    /\ pc2' = "mapset"
    /\ UNCHANGED <<mainVars, fs, mapsets, writers, pid2, gisrc2, newgisrc2>>

SibChangeMapset ==
    /\ pc2 = "mapset"
    /\ mapsets' = mapsets \cup {SiblingMapsetName}
    /\ fs' = WriteMapset(fs, environ2, SiblingMapsetName)
    /\ writers' = Wrote(writers, environ2, "sibling")
    /\ pc2' = "import"
    /\ UNCHANGED <<mainVars, pid2, environ2, gisrc2, newgisrc2>>

SibImport(ok) ==
    /\ pc2 = "import"
    /\ pc2' = IF ok THEN "cleanup" ELSE "fatal"
    /\ UNCHANGED <<mainVars, fs, mapsets, writers, pid2, environ2, gisrc2, newgisrc2>>

SibRemovePrivateGisrc ==
    /\ pc2 = "cleanup"
    /\ fs' = RemoveFile(fs, newgisrc2)
    /\ writers' = Wrote(writers, newgisrc2, "sibling")
    /\ pc2' = "restore"
    /\ UNCHANGED <<mainVars, mapsets, pid2, environ2, gisrc2, newgisrc2>>

SibRestoreGisrc ==
    /\ pc2 = "restore"
    /\ environ2' = gisrc2
    /\ pc2' = "exit0"
    /\ UNCHANGED <<mainVars, fs, mapsets, writers, pid2, gisrc2, newgisrc2>>

(* Outputs of the first worker's attempts in the two-worker specification *)
TwoStderrStreams == {Valid({}), Valid({Http503}), Undecodable}

TwoNext ==
    \/ RemoveMapsetDir
    \/ CreatePrivateGisrc
    \/ RedirectGisrc
    \/ SaveRegion
    \/ ChangeMapset
    \/ SetRegion
    \/ BuildCommand
    \/ \E err \in TwoStderrStreams, art \in Artifacts : Attempt(Valid({}), err, art)
    \/ \E err \in TwoStderrStreams, art \in Artifacts : AttemptDecodeError(Valid({}), err, art)
    \/ Verify
    \/ RemovePrivateGisrc
    \/ RestoreGisrc
    \/ \E p \in SiblingPids : SibStart(p)
    \/ SibRemoveMapsetDir
    \/ SibCreatePrivateGisrc
    \/ SibRedirectGisrc
    \/ SibChangeMapset
    \/ \E ok \in BOOLEAN : SibImport(ok)
    \/ SibRemovePrivateGisrc
    \/ SibRestoreGisrc

\* two workers of one parent session, interleaved in any order
TwoSpec == Init /\ [][TwoNext]_vars


\* every step of main() is taken once it is reached: the process runs on
FairSpec == Spec /\ WF_vars(Next)

Exited == pc \in {"exit0", "fatal", "crash"}

----------------------------------------------------------------------------
(* Properties *)

PrivateGisrc == PrivatePath(ParentGisrc, pid)

ArtifactFound == "raster" \in found \/ "group" \in found

\* past the artifact check, on the way to return 0
Returning == pc \in {"cleanup", "restore", "exit0"}

LoopEnded == pc = "verify" \/ Returning \/ pc = "fatal"

\* the last attempt's output was decoded and classified
Classified == branch # "none"

\* C1: on every exit path of main() (return 0, and the fatal abort of the
\* artifact check) GISRC holds at exit the value it held on entry.
C1_GisrcRestoredOnExit ==
    pc \in {"exit0", "fatal"} => environ = ParentGisrc

\* C2: the private session-state file <GISRC>_<pid> no longer exists when
\* the worker exits, also on the fatal path of the artifact check.
C2_PrivateFileGoneOnExit ==
    pc \in {"exit0", "fatal"} => fs[PrivateGisrc] = NoFile

\* C3: after the retry loop ends the worker exits 0 if and only if the output
\* is found as a raster or as a group, or the no-overlap flag is set; in every
\* other case it aborts with a fatal error naming the output.
C3_ExitZeroIffArtifactOrNoOverlap ==
    /\ Returning =>
          (ArtifactFound \/ noOverlap) /\ fatalMsg = Unset
    /\ pc = "fatal" =>
          ~ArtifactFound /\ ~noOverlap /\ fatalMsg = "ERROR " \o options.output
    /\ (Returning \/ pc = "fatal") => ~next_try

C3_Witness ==
    pc = "fatal" /\ branch = "success" /\ found = {}

\* C4: whatever the import tool prints, the retry loop terminates, and one
\* run makes at least 1 and at most 10 r.import invocations.
C4_LoopTerminatesWithinBudget ==
    /\ [](invocations <= max_tries)
    /\ []((LoopEnded \/ pc = "crash") => invocations >= 1)
    /\ <>Exited

C4_Witness ==
    pc = "exit0" /\ invocations = max_tries

\* C5: a loop that ended on the empty-result marker with no output artifact
\* does not make the worker abort with a fatal error.
C5_EmptyResultNotFatal ==
    (branch = "empty" /\ found = {}) => pc # "fatal"

\* C6 as stated: if the first invocation's output contains the success
\* marker, the worker makes exactly one invocation, no sleep, and exits 0.
C6_FirstSuccessExitsZero ==
    (tries = 1 /\ Classified /\ Ladder \in resp_text) =>
        /\ invocations = 1 /\ ~next_try /\ sleeps = 0
        /\ (pc = "verify" \/ Returning)

\* C6 as amended: if the first invocation's output contains the success
\* marker, the worker makes exactly one invocation and no sleep; it exits 0
\* if the output exists as a raster or a group and aborts fatally if not.
C6_FirstSuccessOneInvocation ==
    (tries = 1 /\ Classified /\ Ladder \in resp_text) =>
        /\ invocations = 1 /\ ~next_try /\ sleeps = 0 /\ slept = 0
        /\ LoopEnded
        /\ Returning => ArtifactFound
        /\ pc = "fatal" => ~ArtifactFound

C6_Witness ==
    pc = "exit0" /\ tries = 1 /\ Ladder \in resp_text /\ invocations = 1

\* C7: if the first invocation's output contains the no-overlap message and
\* not the success marker, exactly one invocation occurs, the no-overlap
\* warning is logged, and the worker exits 0 with or without the artifact.
C7_FirstNoOverlapExitsZero ==
    (tries = 1 /\ Classified /\ NoOverlapMsg \in resp_text /\ Ladder \notin resp_text) =>
        /\ invocations = 1 /\ ~next_try /\ sleeps = 0
        /\ warnings = 1 /\ lastWarning = "no overlap"
        /\ (pc = "verify" \/ Returning)

C7_Witness ==
    /\ pc = "exit0" /\ tries = 1 /\ found = {}
    /\ NoOverlapMsg \in resp_text /\ Ladder \notin resp_text

\* C8: if attempts 1..k (k < 10) give the compression token and no success,
\* no-overlap or empty-result marker, and attempt k+1 gives the success
\* marker, then exactly k+1 invocations occur and exactly k sleeps of 10.
C8_GzipThenSuccess ==
    (invocations >= 1 /\ Classified /\ prevGzip /\ Ladder \in resp_text) =>
        /\ LoopEnded /\ ~next_try
        /\ invocations <= max_tries
        /\ sleeps = invocations - 1
        /\ slept = SleepSeconds * (invocations - 1)

C8_Witness ==
    /\ pc = "exit0" /\ prevGzip /\ Ladder \in resp_text
    /\ invocations = max_tries /\ sleeps = max_tries - 1

\* C9: if every attempt gives the compression token and no terminal marker,
\* the loop stops after the 10th invocation without raising, and the outcome
\* is decided by the artifact check alone.
C9_AllGzipStopsAtBudget ==
    /\ allGzip => invocations <= max_tries
    /\ (allGzip /\ invocations = max_tries) =>
          /\ LoopEnded /\ ~next_try /\ ~noOverlap
          /\ sleeps = max_tries - 1
          /\ Returning => ArtifactFound
          /\ pc = "fatal" => ~ArtifactFound

C9_Witness ==
    pc = "fatal" /\ allGzip /\ invocations = max_tries

\* the reference classifier: the markers in strict precedence order
RefTags == <<"success", "nooverlap", "empty", "gzip", "503", "nonblank", "blank">>

RefApplies(tag, text, t) ==
    CASE tag = "success" -> Ladder \in text
      [] tag = "nooverlap" -> NoOverlapMsg \in text
      [] tag = "empty" -> EmptyMsg(OutputName) \in text
      [] tag = "gzip" -> GzipToken \in text /\ t < max_tries
      [] tag = "503" -> Http503 \in text
      [] tag = "nonblank" -> text # {}
      [] tag = "blank" -> text = {}

RefClass(text, t) ==
    LET first == CHOOSE i \in 1..Len(RefTags) :
                    /\ RefApplies(RefTags[i], text, t)
                    /\ \A j \in 1..(i - 1) : ~RefApplies(RefTags[j], text, t)
    IN  RefTags[first]

RefRetries(tag, t) == tag = "gzip" \/ (tag \in {"503", "nonblank"} /\ t < max_tries)

\* C10: the classification of each attempt's combined text equals the
\* reference classifier with precedence success > no-overlap > empty-result >
\* compression token (while attempts < 10) > "503" > other non-blank > blank;
\* a text with the success and the no-overlap marker stops the loop without
\* setting the no-overlap flag.
C10_ClassificationMatchesReference ==
    Classified =>
        /\ tries \in 1..max_tries
        /\ branch = RefClass(resp_text, tries)
        /\ next_try = RefRetries(RefClass(resp_text, tries), tries)
        /\ noOverlap = (RefClass(resp_text, tries) = "nooverlap")
        /\ Ladder \in resp_text => ~next_try /\ ~noOverlap

C10_Witness ==
    /\ pc = "verify" /\ tries = max_tries /\ branch = "success"
    /\ NoOverlapMsg \in resp_text /\ ~noOverlap

\* C11: two workers with different process identifiers never write to
\* (create, copy into, delete) the same private session-state file, neither
\* mutates the parent session-state file, and every write of a worker, its
\* mapset switch included, goes to its own private file.
C11_PrivateFilesNotShared ==
    /\ writers[ParentGisrc] = {}
    /\ fs[ParentGisrc] = CallerMapset
    /\ \A p \in Paths :
          /\ Cardinality(writers[p]) <= 1
          /\ "worker" \in writers[p] => p = ParentGisrc \o "_" \o ToString(pid)
          /\ "sibling" \in writers[p] => p = ParentGisrc \o "_" \o ToString(pid2)

C11_Witness ==
    /\ pc = "exit0" /\ pc2 = "exit0"
    /\ \E p, q \in Paths : p # q /\ writers[p] = {"worker"} /\ writers[q] = {"sibling"}

\* sub occurs in the string s
Contains(s, sub) ==
    \E i \in 1..(Len(s) - Len(sub) + 1) : SubSeq(s, i, i + Len(sub) - 1) = sub

FlagLetters == {AllFlags[i] : i \in 1..Len(AllFlags)}

\* the command line has a flag word (" -" and flag letters) holding the letter f
CarriesFlag(cmd, f) ==
    \E i \in 1..Len(cmd), j \in 1..Len(cmd) :
        /\ i + 1 < j
        /\ SubSeq(cmd, i, i + 1) = " -"
        /\ SubSeq(cmd, j, j) = f
        /\ \A k \in (i + 2)..j : SubSeq(cmd, k, k) \in FlagLetters

CarriesOption(cmd, opt, val) == Contains(cmd, " " \o opt \o "='" \o val \o "'")

\* C12: the command line of every r.import invocation contains every
\* caller-supplied option except newmapset as key='value', and the letter
\* code of every flag that is set.
C12_CommandCarriesOptionsAndFlags ==
    invocations >= 1 =>
        /\ \A i \in 1..Len(OptionKeys) :
              (OptionKeys[i] # "newmapset" /\ options[OptionKeys[i]] # "") =>
                  CarriesOption(cmdline, OptionKeys[i], options[OptionKeys[i]])
        /\ \A f \in FlagLetters : flags[f] => CarriesFlag(cmdline, f)

\* the options half of C12, which the code does satisfy
C12_CommandCarriesOptions ==
    invocations >= 1 =>
        \A i \in 1..Len(OptionKeys) :
            (OptionKeys[i] # "newmapset" /\ options[OptionKeys[i]] # "") =>
                CarriesOption(cmdline, OptionKeys[i], options[OptionKeys[i]])

BeforeSetRegion == pc \in {"rmdir", "gisrc", "redirect", "saveregion", "mapset", "setregion"}

DerivedFields == {"cells", "rows", "cols", "zone", "projection"}

\* r is the region c without the fields in gone, the other values unchanged
IsStripped(r, c, gone) ==
    /\ DOMAIN r = (DOMAIN c) \ gone
    /\ \A k \in DOMAIN r : r[k] = c[k]

\* C13 as stated: with extent=region the region applied in the new mapset
\* is the region captured before the switch with exactly four fields
\* removed; with extent=input no region is captured and no g.region is run.
C13_RegionMinusFourFields ==
    /\ (options.extent = "region" /\ ~BeforeSetRegion) =>
          /\ region # NoReg
          /\ region.mapset = options.newmapset
          /\ \E gone \in SUBSET DerivedFields :
                Cardinality(gone) = 4 /\ IsStripped(region.kwargs, CallerRegion, gone)
    /\ options.extent = "input" => (reg = NoReg /\ region = NoReg)

\* C13 as amended: the fields removed are the five fields cells, rows, cols,
\* zone and projection.
C13_RegionMinusDerivedFields ==
    /\ (options.extent = "region" /\ pc \in {"mapset", "setregion"}) =>
          reg = CallerRegion /\ region = NoReg
    /\ (options.extent = "region" /\ ~BeforeSetRegion) =>
          /\ region # NoReg
          /\ region.mapset = options.newmapset
          /\ IsStripped(region.kwargs, CallerRegion, DerivedFields)
          /\ Cardinality((DOMAIN CallerRegion) \ DOMAIN region.kwargs) = 5
    /\ options.extent = "input" => (reg = NoReg /\ region = NoReg)

C13_Witness ==
    /\ options.extent = "region" /\ pc = "exit0"
    /\ region # NoReg /\ DOMAIN region.kwargs = {"n", "s", "w", "e", "nsres", "ewres"}

BeforeSwitch == pc \in {"rmdir", "gisrc", "redirect", "saveregion", "mapset"}

\* C14: a directory at the new mapset's path is removed before the mapset
\* is created by g.mapset -c, its absence is not an error, and once the
\* mapset is created the worker never removes it, on any path.
C14_MapsetRemovedThenKept ==
    /\ [][pc = "rmdir" => (pc' = "gisrc" /\ options.newmapset \notin mapsets')]_vars
    /\ [](pc \in {"gisrc", "redirect", "saveregion", "mapset"} =>
            options.newmapset \notin mapsets)
    /\ [][pc = "mapset" => options.newmapset \in mapsets']_vars
    /\ [](~BeforeSwitch => options.newmapset \in mapsets)

C14_Witness ==
    pc = "fatal" /\ options.newmapset \in mapsets /\ found = {}

\* C15: no attempt inside the retry loop raises or aborts the worker,
\* whatever its output and attempt number; a fatal abort comes only from the
\* artifact check after the loop has ended.
C15_NoAbortInsideLoop ==
    /\ pc # "crash"
    /\ pc = "fatal" => (~next_try /\ Classified /\ fatalMsg # Unset)

\* the text has no success, no-overlap or empty-result marker and is not blank
Unclassified(text) ==
    /\ text # {}
    /\ Ladder \notin text
    /\ NoOverlapMsg \notin text
    /\ EmptyMsg(OutputName) \notin text

\* C16: an attempt whose output contains "503" or is other non-blank
\* unclassified text (the compression token on the 10th attempt included)
\* sleeps 10 and retries if fewer than 10 attempts were made, and otherwise
\* stops with a warning and without raising; the artifact check alone then
\* decides whether the run fails.
C16_TransientRetriesWithinBudget ==
    (Classified /\ Unclassified(resp_text)) =>
        /\ warnings >= 1
        /\ tries < 10 =>
              /\ next_try /\ pc = "loop"
              /\ sleeps = tries /\ slept = 10 * tries
        /\ tries >= 10 =>
              /\ tries = 10 /\ ~next_try /\ LoopEnded /\ ~noOverlap
              /\ lastWarning = "response"
              /\ sleeps = tries - 1 /\ slept = 10 * (tries - 1)
              /\ Returning => ArtifactFound
              /\ pc = "fatal" => ~ArtifactFound

C16_Witness ==
    /\ pc = "fatal" /\ tries = 10 /\ GzipToken \in resp_text /\ Http503 \notin resp_text
    /\ Unclassified(resp_text)

\* classes of the reference classifier that log a warning
WarnedClasses == {"nooverlap", "empty", "gzip", "503", "nonblank"}

\* C17: exactly one warning is logged for every attempt classified as
\* no-overlap, empty-result, compression-token retry, "503" or generic
\* non-blank, none for an attempt classified as success or blank; so the
\* number of warnings is at least the number of retries.
C17_OneWarningPerWarnedAttempt ==
    /\ [][(invocations' = invocations + 1 /\ branch' # "none") =>
            warnings' = warnings +
                (IF RefClass(resp_text', tries') \in WarnedClasses THEN 1 ELSE 0)]_vars
    /\ [][invocations' = invocations => warnings' = warnings]_vars
    /\ [](warnings >= sleeps)
    /\ []((Classified /\ next_try) => warnings >= invocations)
    /\ []((Classified /\ ~next_try) => warnings >= invocations - 1)

C17_Witness ==
    /\ pc = "verify" /\ branch = "blank" /\ invocations = max_tries
    /\ warnings = max_tries - 1

\* C18: at every invocation 1 <= tries <= 10 and tries is the number of
\* invocations made so far; next_try is true after an attempt only if
\* tries < 10; the sleeps of a run number its invocations minus one.
C18_RetryLoopInvariant ==
    /\ tries = invocations
    /\ tries \in 0..10
    /\ invocations >= 1 => tries >= 1
    /\ (Classified /\ next_try) => (tries < 10 /\ sleeps = invocations)
    /\ (LoopEnded \/ pc = "crash") => sleeps = invocations - 1

C18_Witness ==
    pc = "exit0" /\ tries = 10 /\ invocations = 10 /\ sleeps = 9

\* C19: noOverlap is false until an attempt is classified as no-overlap, is
\* set only together with stopping the loop, and is never reset; at the
\* artifact check it is true exactly when the last attempt's output held the
\* no-overlap marker and not the success marker.
C19_NoOverlapFlag ==
    /\ [][(~noOverlap /\ noOverlap') =>
            /\ invocations' = invocations + 1
            /\ NoOverlapMsg \in resp_text' /\ Ladder \notin resp_text'
            /\ ~next_try' /\ pc' = "verify"]_vars
    /\ [][noOverlap => (noOverlap' /\ invocations' = invocations)]_vars
    /\ [](noOverlap => (~next_try /\ pc # "loop"))
    /\ [](LoopEnded =>
            (noOverlap <=> (NoOverlapMsg \in resp_text /\ Ladder \notin resp_text)))

C19_Witness ==
    pc = "verify" /\ noOverlap /\ tries = max_tries /\ EmptyMsg(OutputName) \in resp_text

\* the order of the steps of main()
StepOrder ==
    <<"rmdir", "gisrc", "redirect", "saveregion", "mapset", "setregion", "build",
      "loop", "verify", "cleanup", "restore", "exit0">>

Position(p) == CHOOSE i \in 1..Len(StepOrder) : StepOrder[i] = p

\* C20: the steps of one worker occur in the fixed order copy, redirect,
\* switch mapset, apply region, r.import attempts, artifact check, delete
\* private file, restore GISRC; every mapset switch, region set and r.import
\* invocation happens while GISRC is the private path and the private file
\* exists; GISRC only ever holds the original value or the private path.
C20_StepOrderAndPrivateSession ==
    /\ [][(pc' # pc /\ pc' \notin {"fatal", "crash"}) =>
            Position(pc') = Position(pc) + 1]_vars
    /\ [][pc' = "fatal" => pc = "verify"]_vars
    /\ [][pc' = "crash" => pc = "loop"]_vars
    /\ [][fs'[PrivateGisrc] # fs[PrivateGisrc] => pc \in {"gisrc", "mapset", "cleanup"}]_vars
    /\ [][environ' # environ => pc \in {"redirect", "restore"}]_vars
    /\ [](environ \in {ParentGisrc, PrivateGisrc})
    /\ [](pc \in {"mapset", "setregion", "loop"} =>
            (environ = PrivateGisrc /\ environ = newgisrc /\ fs[PrivateGisrc] # NoFile))
    /\ [](region # NoReg => region.mapset = options.newmapset)
    /\ [](invocations >= 1 => fs[ParentGisrc] = CallerMapset)

C20_Witness ==
    /\ pc = "exit0" /\ environ = ParentGisrc /\ fs[PrivateGisrc] = NoFile
    /\ region # NoReg /\ invocations >= 1 /\ options.newmapset \in mapsets

====
